---- MODULE Spec2Model ----
(***************************************************************************)
(* A model of the zettelkasten index (src/src/zettelkasten.rs), the note   *)
(* renderer (src/src/zettel.rs) and the frontmatter parser                 *)
(* (src/src/frontmatter.rs).                                               *)
(*                                                                         *)
(* Text is modelled by what the code looks at:                             *)
(*   - a path is the sequence of its components;                           *)
(*   - a file is the sequence of its lines, as BufRead::lines yields them; *)
(*   - a line is a tuple: the delimiter "---", a "key: value" line with    *)
(*     a typed scalar, a blank line, a line of free text, a line that      *)
(*     starts with the delimiter and goes on, or a line that is no YAML    *)
(*     mapping;                                                            *)
(*   - a note body is the sequence of its "\n"-separated segments.         *)
(***************************************************************************)
EXTENDS Integers, Sequences, FiniteSets, TLC

\* ------------------------------------------------------------------ bounds

\* Number of external changes of the file tree (writes, moves, removals by
\* an editor or a shell) in one behaviour.
MaxEnvOps == 1


\* ---------------------------------------------------------------- universe

Ids == {"X", "Y"}

\* The collection root, as an absolute path.
RootPath == <<"zk">>

\* Root-relative paths a note is created at (ZettelMeta.path).
NotePaths == {<<"a.md">>, <<"b", "c.md">>}

\* Root-relative paths an external tool writes files at. "_zettel.md" is a
\* note whose name begins like the backing file's.
EnvPaths == NotePaths \cup {<<"_zettel.md">>}

\* Sub-directories of the root (ZettelkastenBuilder::add_subdir).
SubDirs == {<<"b">>}

\* Every name a directory entry can have.
Names == {"_zettel.md", "_zettel.yaml", "a.md", "b", "c.md"}

\* The names str::starts_with("_zettel") holds of.
ZettelPrefixed == {"_zettel.md", "_zettel.yaml"}

NoFile == <<<<"nofile">>>>

\* ------------------------------------------------------------------- lines

Delim == <<"---">>
Blank == <<"">>
Bad == <<"bad">>
Text(t) == <<"text", t>>
DelimPlus(t) == <<"---+", t>>
Str(s) == <<"str", s>>
Num(s) == <<"num", s>>
KV(k, v) == <<"kv", k, v>>

IsKV(line) == Len(line) = 3 /\ line[1] = "kv"

\* serde_yaml::Value::as_str: Some for a string scalar only.
IsStr(v) == v[1] = "str"

\* --------------------------------------------------------- frontmatter.rs

\* The loop of parse_yaml: lines are accumulated from position i until a line
\* equal to the delimiter; 0 when the input ends first.
RECURSIVE ClosingDelimiter(_, _)
ClosingDelimiter(lines, i) ==
    IF i > Len(lines) THEN 0
    ELSE IF lines[i] = Delim THEN i
    ELSE ClosingDelimiter(lines, i + 1)

\* serde_yaml::from_str::<Mapping> of the accumulated lines: an error unless
\* every line is a "key: value" line or blank and there is at least one key
\* (the empty document is no mapping); a repeated key keeps its last value.
from_str(hdr) ==
    LET kvs == {i \in 1..Len(hdr) : IsKV(hdr[i])}
        keys == {hdr[i][2] : i \in kvs}
        last_of(k) == CHOOSE i \in kvs :
            /\ hdr[i][2] = k
            /\ \A j \in kvs : hdr[j][2] = k => j <= i
    IN  IF \E i \in 1..Len(hdr) : ~IsKV(hdr[i]) /\ hdr[i] # Blank
        THEN [kind |-> "SerializationError", map |-> <<>>]
        ELSE IF kvs = {}
        THEN [kind |-> "SerializationError", map |-> <<>>]
        ELSE [kind |-> "ok", map |-> [k \in keys |-> hdr[last_of(k)][3]]]

\* parse_yaml: `lines.next().unwrap()` panics when there is no first line.
parse_yaml(lines) ==
    IF Len(lines) = 0 THEN [kind |-> "panic", map |-> <<>>]
    ELSE IF lines[1] # Delim
    THEN [kind |-> "MissingInitialDelimiter", map |-> <<>>]
    ELSE LET close == ClosingDelimiter(lines, 2)
         IN  IF close = 0
             THEN [kind |-> "MissingFinalDelimiter", map |-> <<>>]
             ELSE from_str(SubSeq(lines, 2, close - 1))

\* parse_yaml_path: opens the file and parses its header.
parse_yaml_path(tree, path) == parse_yaml(tree[path])

\* ------------------------------------------------------- the file tree

abs_path(rel) ==
    IF Len(rel) >= Len(RootPath) /\ SubSeq(rel, 1, Len(RootPath)) = RootPath
    THEN rel
    ELSE RootPath \o rel

\* Path::strip_prefix(root_path)
strip_prefix(path) == SubSeq(path, Len(RootPath) + 1, Len(path))

FilePaths == {abs_path(p) : p \in EnvPaths}

\* The conventional backing file of the root.
BackingFile == abs_path(<<"_zettel.yaml">>)

is_dir(path) == path = RootPath \/ path \in {abs_path(d) : d \in SubDirs}

is_file(tree, path) == path \in DOMAIN tree /\ tree[path] # NoFile

\* Path::exists
exists(tree, path) == is_file(tree, path) \/ is_dir(path)

\* The orders std::fs::read_dir may enumerate names in: the order is that of
\* the platform and the file system, one or the other for a whole behaviour.
NameOrder == <<"_zettel.md", "_zettel.yaml", "a.md", "b", "c.md">>

Reverse(s) == [i \in 1..Len(s) |-> s[Len(s) + 1 - i]]

Orders == {NameOrder, Reverse(NameOrder)}

\* std::fs::read_dir: the entries of dir, in the enumeration order.
read_dir(tree, ord, dir) ==
    SelectSeq(ord, LAMBDA n : exists(tree, dir \o <<n>>))

\* ------------------------------------------------------- zettelkasten.rs

\* A diagnostic sync prints for a file it skips.
Diag(path, why) == <<path, why>>

\* A variant of refresh that stamps the entry it refreshes.
refresh_touch(zs, id, path, fm) ==
    LET moved == [zs EXCEPT ![id].path = strip_prefix(path),
                            ![id].modified = zs[id].modified + 1]
    IN  IF "title" \in DOMAIN fm /\ IsStr(fm["title"])
        THEN [moved EXCEPT ![id].title = fm["title"][2]]
        ELSE moved

\* A variant of refresh that takes the title only once the path is in place.
refresh_else_if(zs, id, path, fm) ==
    IF zs[id].path # strip_prefix(path)
    THEN [zs EXCEPT ![id].path = strip_prefix(path)]
    ELSE IF "title" \in DOMAIN fm /\ IsStr(fm["title"])
    THEN [zs EXCEPT ![id].title = fm["title"][2]]
    ELSE zs

\* A variant of refresh that clears the title when the header has no string
\* title.
refresh_clear(zs, id, path, fm) ==
    LET moved == [zs EXCEPT ![id].path = strip_prefix(path)]
    IN  IF "title" \in DOMAIN fm /\ IsStr(fm["title"])
        THEN [moved EXCEPT ![id].title = fm["title"][2]]
        ELSE [moved EXCEPT ![id].title = ""]

\* The end of sync_file: the entry's path becomes the file's root-relative
\* path; its title becomes the header's, when that is a string.
refresh(zs, id, path, fm) ==
    LET moved == [zs EXCEPT ![id].path = strip_prefix(path)]
    IN  IF "title" \in DOMAIN fm /\ IsStr(fm["title"])
        THEN [moved EXCEPT ![id].title = fm["title"][2]]
        ELSE moved

\* A variant of sync_file that registers a file whose id it does not know.
sync_file_register(zs, tree, path) ==
    LET fm == parse_yaml_path(tree, path)
        skip(why) == [zettels |-> zs, res |-> "ok", log |-> <<Diag(path, why)>>]
    IN  IF fm.kind = "panic"
        THEN [zettels |-> zs, res |-> "panic", log |-> <<>>]
        ELSE IF fm.kind # "ok" THEN skip(fm.kind)
        ELSE IF "id" \notin DOMAIN fm.map THEN skip("missing id")
        ELSE IF ~IsStr(fm.map["id"]) THEN skip("id not a string")
        ELSE LET id == fm.map["id"][2]
                 fresh == [created |-> 0, modified |-> 0, title |-> "",
                           path |-> strip_prefix(path), id |-> id]
                 known == [k \in DOMAIN zs \cup {id} |->
                              IF k \in DOMAIN zs THEN zs[k] ELSE fresh]
             IN  [zettels |-> refresh(known, id, path, fm.map),
                  res |-> "ok",
                  log |-> IF id \in DOMAIN zs THEN <<>>
                          ELSE <<Diag(path, "no metadata")>>]

\* A variant of sync_file that unwraps the id as a string.
sync_file_unwrap(zs, tree, path) ==
    LET fm == parse_yaml_path(tree, path)
        skip(why) == [zettels |-> zs, res |-> "ok", log |-> <<Diag(path, why)>>]
    IN  IF fm.kind = "panic"
        THEN [zettels |-> zs, res |-> "panic", log |-> <<>>]
        ELSE IF fm.kind # "ok" THEN skip(fm.kind)
        ELSE IF "id" \notin DOMAIN fm.map THEN skip("missing id")
        ELSE IF ~IsStr(fm.map["id"])
        THEN [zettels |-> zs, res |-> "panic", log |-> <<>>]
        ELSE LET id == fm.map["id"][2]
             IN  IF id \notin DOMAIN zs THEN skip("no metadata")
                 ELSE [zettels |-> refresh(zs, id, path, fm.map),
                       res |-> "ok",
                       log |-> <<>>]

\* Zettelkasten::sync_file on the map zs: the map afterwards, the diagnostics
\* printed, and "panic" when the call does not return.
sync_file(zs, tree, path) ==
    LET fm == parse_yaml_path(tree, path)
        skip(why) == [zettels |-> zs, res |-> "ok", log |-> <<Diag(path, why)>>]
    IN  IF fm.kind = "panic"
        THEN [zettels |-> zs, res |-> "panic", log |-> <<>>]
        ELSE IF fm.kind # "ok" THEN skip(fm.kind)
        ELSE IF "id" \notin DOMAIN fm.map THEN skip("missing id")
        ELSE IF ~IsStr(fm.map["id"]) THEN skip("id not a string")
        ELSE LET id == fm.map["id"][2]
             IN  IF id \notin DOMAIN zs THEN skip("no metadata")
                 ELSE [zettels |-> refresh(zs, id, path, fm.map),
                       res |-> "ok",
                       log |-> <<>>]

\* Zettelkasten::sync_dir: the loop over the entries of dir_path. A panic in
\* a file ends the walk where it is.
RECURSIVE sync_dir(_, _, _, _)
RECURSIVE sync_entries(_, _, _, _, _, _)
sync_entries(zs, log, tree, ord, dir, entries) ==
    IF entries = <<>> THEN [zettels |-> zs, res |-> "ok", log |-> log]
    ELSE LET path == dir \o <<Head(entries)>>
             rest == Tail(entries)
         IN  IF Head(entries) \in ZettelPrefixed
             THEN sync_entries(zs, log, tree, ord, dir, rest)
             ELSE LET r == IF is_dir(path)
                           THEN sync_dir(zs, tree, ord, path)
                           ELSE sync_file(zs, tree, path)
                  IN  IF r.res # "ok"
                      THEN [r EXCEPT !.log = log \o r.log]
                      ELSE sync_entries(r.zettels, log \o r.log, tree, ord, dir, rest)

sync_dir(zs, tree, ord, dir_path) ==
    sync_entries(zs, <<>>, tree, ord, dir_path, read_dir(tree, ord, dir_path))

\* Zettelkasten::sync
sync(zs, tree, ord) == sync_dir(zs, tree, ord, RootPath)

\* A variant of get that falls back on an entry of the map for an id the map
\* does not have.
get_fallback(zs, id) ==
    IF id \in DOMAIN zs THEN [kind |-> "ok", meta |-> zs[id]]
    ELSE IF DOMAIN zs # {} THEN [kind |-> "ok", meta |-> zs[CHOOSE k \in DOMAIN zs : TRUE]]
    ELSE [kind |-> "Other"]

\* Zettelkasten::get: an id that is no key gives Error::Other("no zettel with id ..").
get(zs, id) ==
    IF id \in DOMAIN zs THEN [kind |-> "ok", meta |-> zs[id]]
    ELSE [kind |-> "Other"]

\* ---------------------------------------------------------------- zettel.rs

\* A template value: "@name" refers to a field of the note, anything else is
\* copied.
Ref(name) == <<"@", name>>
Lit(text) == <<"lit", text>>

\* ZettelkastenBuilder::build's default_frontmatter.
DefaultFrontmatter ==
    [title |-> Ref("title"), id |-> Ref("id"), date |-> Ref("created")]

\* The templates an index can hold: the default one, and one a backing file
\* can carry, with a reference to a field as_string does not know.
Templates ==
    { DefaultFrontmatter,
      [id |-> Ref("id"), tag |-> Ref("foo")] }

\* DateTime::format("%Y-%m-%d"); a day has two ticks of the clock.
DateNames == <<"1970-01-01", "1970-01-02", "1970-01-03", "1970-01-04", "1970-01-05">>

format_date(t) == DateNames[(t \div 2) + 1]

\* The orders a HashMap of these keys may be iterated in: the order depends
\* on the map's random hasher state. Two orders stand for them.
KeyOrder == <<"date", "id", "kind", "tag", "title">>

KeyOrders(fm) ==
    { SelectSeq(KeyOrder, LAMBDA k : k \in DOMAIN fm),
      SelectSeq(Reverse(KeyOrder), LAMBDA k : k \in DOMAIN fm) }

\* The lines of "---" + content + "\n".
BodyLines(content) ==
    [i \in 1..Len(content) |->
        IF i = 1
        THEN IF content[1] = "" THEN Delim ELSE DelimPlus(content[1])
        ELSE IF content[i] = "" THEN Blank ELSE Text(content[i])]

\* A variant of as_string that looks for an unknown reference under the
\* first key only and copies any other as it is.
as_string_first_key(zettel, frontmatter, ks) ==
    LET known == {"title", "id", "created"}
        new_val(val) ==
            IF val[1] # "@" THEN val[2]
            ELSE CASE val[2] = "title" -> zettel.meta.title
                   [] val[2] = "id" -> zettel.meta.id
                   [] val[2] = "created" -> format_date(zettel.meta.created)
                   [] OTHER -> val[2]
    IN  IF frontmatter[ks[1]][1] = "@" /\ frontmatter[ks[1]][2] \notin known
        THEN [kind |-> "UnknownField", lines |-> <<>>]
        ELSE [kind |-> "ok",
              lines |-> <<Delim>>
                        \o [i \in 1..Len(ks) |-> KV(ks[i], Str(new_val(frontmatter[ks[i]])))]
                        \o <<Blank>>
                        \o BodyLines(zettel.content)]

\* Zettel::as_string: the lines of
\*   format!("{}\n---{}\n", serde_yaml::to_string(&fm), content)
\* where to_string yields "---\n" and one "key: value\n" per key of fm, in
\* fm's iteration order ks.
as_string(zettel, frontmatter, ks) ==
    LET known == {"title", "id", "created"}
        new_val(val) ==
            IF val[1] # "@" THEN val[2]
            ELSE CASE val[2] = "title" -> zettel.meta.title
                   [] val[2] = "id" -> zettel.meta.id
                   [] val[2] = "created" -> format_date(zettel.meta.created)
    IN  IF \E k \in DOMAIN frontmatter :
               frontmatter[k][1] = "@" /\ frontmatter[k][2] \notin known
        THEN [kind |-> "UnknownField", lines |-> <<>>]
        ELSE [kind |-> "ok",
              lines |-> <<Delim>>
                        \o [i \in 1..Len(ks) |-> KV(ks[i], Str(new_val(frontmatter[ks[i]])))]
                        \o <<Blank>>
                        \o BodyLines(zettel.content)]

\* ----------------------------------------------------------------- inputs

\* The clock tick each note is created at: two different days.
CreatedAt == [i \in Ids |-> IF i = "X" THEN 1 ELSE 2]

\* The body of the note made at each path: empty at the root (as
\* Database::new_zettel makes it), and in the sub-directory one that does not
\* begin with a line break (the tests' "A post.").
ContentAt == [p \in NotePaths |-> IF Len(p) = 1 THEN <<"">> ELSE <<"A post.">>]

\* ZettelBuilder::build: modified defaults to created.
Zettels ==
    {[meta |-> [created |-> CreatedAt[i], modified |-> CreatedAt[i], title |-> "T1",
                path |-> p, id |-> i],
      content |-> ContentAt[p]] : p \in NotePaths, i \in Ids}

\* What an editor can leave in a file.
EnvContents ==
    { <<>>,
      <<Text("hello")>>,
      <<Delim, KV("id", Str("X"))>>,
      <<Delim, Bad, Delim>>,
      <<Delim, KV("title", Str("T2")), Delim, Text("hello")>>,
      <<Delim, KV("id", Num("5")), KV("title", Str("T2")), Delim>>,
      <<Delim, KV("id", Str("X")), KV("title", Str("T2")), Delim, Text("hello")>>,
      <<Delim, KV("id", Str("X")), KV("title", Num("7")), Delim>>,
      <<Delim, KV("id", Str("X")), Delim>> }

\* ------------------------------------------------------------------ state

VARIABLES
    zettels,              \* contents.zettels: id -> ZettelMeta
    default_frontmatter,  \* contents.default_frontmatter
    fs,                   \* the files under the root: path -> lines, or NoFile
    dirOrder,             \* the order read_dir enumerates names in (fixed)
    pc,                   \* "run", or "panicked" once a call has panicked
    envOps,               \* external changes of the tree so far
    last,                 \* the last operation: its name, the path it was
                          \* given, its outcome, its diagnostics
    zk_meta,              \* contents.meta: the index's created and modified
    db_path,              \* the index's db_path field
    call                  \* the arguments of the call under observation and,
                          \* for a pure function, the results of its calls

vars == <<zettels, default_frontmatter, fs, dirOrder, pc, envOps, last, zk_meta, db_path, call>>

Done(op, target, res, log) == [op |-> op, target |-> target, res |-> res, log |-> log]

\* chrono::Local::now() when the index is built.
Now == 0

\* No call of a pure function is under observation.
NoCall == <<>>

\* The index ZettelkastenBuilder::build returns (or Zettelkasten::open, for
\* the templates build does not make), on a root with its sub-directories
\* and no file.
Init ==
    /\ zettels = <<>>
    /\ default_frontmatter \in Templates
    /\ fs = [p \in FilePaths |-> NoFile]
    /\ dirOrder \in Orders
    /\ pc = "run"
    /\ envOps = 0
    /\ last = Done("build", <<>>, "ok", <<>>)
    /\ zk_meta = [created |-> Now, modified |-> Now]
    /\ db_path = <<"_zettel.yaml">>
    /\ call = NoCall

\* HashMap::insert
insert(zs, id, meta) ==
    [k \in DOMAIN zs \cup {id} |-> IF k = id THEN meta ELSE zs[k]]

\* The file operation of add that fails, if any: File::create or write_all.
IoOutcomes == {"none", "create", "write"}

\* A variant of add that looks for the note's id in the map, not for a file
\* at its path.
AddOutcome_by_id(zs, tree, frontmatter, zettel, io, ks) ==
    LET path == abs_path(zettel.meta.path)
        created == [tree EXCEPT ![path] = <<>>]
        zettel_str == as_string(zettel, frontmatter, ks)
    IN  IF zettel.meta.id \in DOMAIN zs
        THEN [res |-> "AlreadyExists", tree |-> tree, zettels |-> zs]
        ELSE IF io = "create"
        THEN [res |-> "IoError", tree |-> tree, zettels |-> zs]
        ELSE IF zettel_str.kind # "ok"
        THEN [res |-> zettel_str.kind, tree |-> created, zettels |-> zs]
        ELSE IF io = "write"
        THEN [res |-> "IoError", tree |-> created, zettels |-> zs]
        ELSE [res |-> "ok",
              tree |-> [tree EXCEPT ![path] = zettel_str.lines],
              zettels |-> insert(zs, zettel.meta.id, zettel.meta)]

\* A variant of add that inserts the entry before it writes the file.
AddOutcome_insert_first(zs, tree, frontmatter, zettel, io, ks) ==
    LET path == abs_path(zettel.meta.path)
        created == [tree EXCEPT ![path] = <<>>]
        zettel_str == as_string(zettel, frontmatter, ks)
        inserted == insert(zs, zettel.meta.id, zettel.meta)
    IN  IF exists(tree, path)
        THEN [res |-> "AlreadyExists", tree |-> tree, zettels |-> zs]
        ELSE IF io = "create"
        THEN [res |-> "IoError", tree |-> tree, zettels |-> zs]
        ELSE IF zettel_str.kind # "ok"
        THEN [res |-> zettel_str.kind, tree |-> created, zettels |-> zs]
        ELSE IF io = "write"
        THEN [res |-> "IoError", tree |-> created, zettels |-> inserted]
        ELSE [res |-> "ok",
              tree |-> [tree EXCEPT ![path] = zettel_str.lines],
              zettels |-> inserted]

\* A variant of add that creates the backing file when it writes a note.
AddOutcome_touch_db(zs, tree, frontmatter, zettel, io, ks) ==
    LET path == abs_path(zettel.meta.path)
        created == [tree EXCEPT ![path] = <<>>]
        zettel_str == as_string(zettel, frontmatter, ks)
    IN  IF exists(tree, path)
        THEN [res |-> "AlreadyExists", tree |-> tree, zettels |-> zs]
        ELSE IF io = "create"
        THEN [res |-> "IoError", tree |-> tree, zettels |-> zs]
        ELSE IF zettel_str.kind # "ok"
        THEN [res |-> zettel_str.kind, tree |-> created, zettels |-> zs]
        ELSE IF io = "write"
        THEN [res |-> "IoError", tree |-> created, zettels |-> zs]
        ELSE [res |-> "ok",
              tree |-> [tree EXCEPT ![path] = zettel_str.lines, ![BackingFile] = <<>>],
              zettels |-> insert(zs, zettel.meta.id, zettel.meta)]

\* Zettelkasten::add. io names the file operation that fails, if any; ks is
\* the iteration order of the rendered header's HashMap. File::create leaves
\* an empty file, which stays when rendering or writing fails afterwards.
AddOutcome(zs, tree, frontmatter, zettel, io, ks) ==
    LET path == abs_path(zettel.meta.path)
        created == [tree EXCEPT ![path] = <<>>]
        zettel_str == as_string(zettel, frontmatter, ks)
    IN  IF exists(tree, path)
        THEN [res |-> "AlreadyExists", tree |-> tree, zettels |-> zs]
        ELSE IF io = "create"
        THEN [res |-> "IoError", tree |-> tree, zettels |-> zs]
        ELSE IF zettel_str.kind # "ok"
        THEN [res |-> zettel_str.kind, tree |-> created, zettels |-> zs]
        ELSE IF io = "write"
        THEN [res |-> "IoError", tree |-> created, zettels |-> zs]
        ELSE [res |-> "ok",
              tree |-> [tree EXCEPT ![path] = zettel_str.lines],
              zettels |-> insert(zs, zettel.meta.id, zettel.meta)]

Add(zettel, io, ks) ==
    /\ pc = "run"
    /\ LET r == AddOutcome(zettels, fs, default_frontmatter, zettel, io, ks)
       IN  /\ zettels' = r.zettels
           /\ fs' = r.tree
           /\ last' = Done("add", zettel.meta.path, r.res, <<>>)
    /\ UNCHANGED <<default_frontmatter, dirOrder, pc, envOps, zk_meta, db_path, call>>

\* Zettelkasten::sync. A panic unwinds out of the call: nothing runs after it.
Sync ==
    /\ pc = "run"
    /\ LET r == sync(zettels, fs, dirOrder)
       IN  /\ zettels' = r.zettels
           /\ pc' = IF r.res = "panic" THEN "panicked" ELSE "run"
           /\ last' = Done("sync", <<>>, r.res, r.log)
    /\ UNCHANGED <<default_frontmatter, fs, dirOrder, envOps, zk_meta, db_path, call>>

\* An editor or a shell writes, moves or removes a file under the root.
EnvWrite(path, lines) ==
    /\ pc = "run"
    /\ envOps < MaxEnvOps
    /\ fs' = [fs EXCEPT ![path] = lines]
    /\ envOps' = envOps + 1
    /\ last' = Done("env", <<>>, "ok", <<>>)
    /\ UNCHANGED <<zettels, default_frontmatter, dirOrder, pc, zk_meta, db_path, call>>

EnvMove(from, to) ==
    /\ pc = "run"
    /\ envOps < MaxEnvOps
    /\ is_file(fs, from)
    /\ ~exists(fs, to)
    /\ fs' = [fs EXCEPT ![from] = NoFile, ![to] = fs[from]]
    /\ envOps' = envOps + 1
    /\ last' = Done("env", <<>>, "ok", <<>>)
    /\ UNCHANGED <<zettels, default_frontmatter, dirOrder, pc, zk_meta, db_path, call>>

EnvRemove(path) ==
    /\ pc = "run"
    /\ envOps < MaxEnvOps
    /\ is_file(fs, path)
    /\ fs' = [fs EXCEPT ![path] = NoFile]
    /\ envOps' = envOps + 1
    /\ last' = Done("env", <<>>, "ok", <<>>)
    /\ UNCHANGED <<zettels, default_frontmatter, dirOrder, pc, zk_meta, db_path, call>>

AddStep ==
    \E zettel \in Zettels :
        \/ \E ks \in KeyOrders(default_frontmatter) : Add(zettel, "none", ks)
        \/ \E io \in IoOutcomes \ {"none"} :
               Add(zettel, io, CHOOSE ks \in KeyOrders(default_frontmatter) : TRUE)

EnvWriteStep ==
    \E path \in {abs_path(p) : p \in NotePaths}, lines \in EnvContents :
        EnvWrite(path, lines)

EnvMoveStep == \E from \in FilePaths, to \in FilePaths : EnvMove(from, to)

EnvRemoveStep == \E path \in FilePaths : EnvRemove(path)

Next ==
    \/ AddStep
    \/ Sync
    \/ EnvWriteStep
    \/ EnvMoveStep
    \/ EnvRemoveStep

Spec == Init /\ [][Next]_vars

\* ------------------------------------------- the backing file: commit, open

\* The files an index can be opened from: the conventional backing file, and
\* files a user names on the command line.
DbFiles == {abs_path(<<n>>) : n \in {"_zettel.yaml", "db.yml", "db.txt", "yaml"}}

\* str::split(".") of a file name.
split_dot(name) ==
    CASE name = "_zettel.yaml" -> <<"_zettel", "yaml">>
      [] name = "db.yml" -> <<"db", "yml">>
      [] name = "db.txt" -> <<"db", "txt">>
      [] name = "yaml" -> <<"yaml">>

\* Zettelkasten::db_path(): PathBuf::push of an absolute path replaces the
\* root; a path is absolute when it begins with the root's components.
DbPath(field) ==
    IF Len(field) >= Len(RootPath) /\ SubSeq(field, 1, Len(RootPath)) = RootPath
    THEN field
    ELSE RootPath \o field

\* The text serde_yaml writes, in cells: a cell stands for a run of bytes. The
\* document start, the index's timestamps, one cell per template key, the
\* "zettels:" key (with "{}" after it when the map is empty) and, per entry,
\* one cell with its key and scalar fields and one cell per component of its
\* path, so that a longer path is a longer text. ZettelMeta.id is
\* #[serde(skip)]: the id is written as the key only.
Ts(t) == <<"ts", t>>
MetaCell(m) == <<"meta", Ts(m.created), Ts(m.modified)>>
TemplateCell(k, v) == <<"default_frontmatter", k, v>>
EmptyMapCell == <<"zettels: {}">>
MapCell == <<"zettels:">>
EntryCell(id, m) == <<"entry", id, Ts(m.created), Ts(m.modified), Str(m.title)>>
PathCell(c) == <<"path", c>>

EntryCells(id, m) ==
    <<EntryCell(id, m)>> \o [i \in 1..Len(m.path) |-> PathCell(m.path[i])]

RECURSIVE EntriesCells(_, _)
EntriesCells(zs, ids) ==
    IF ids = <<>> THEN <<>>
    ELSE EntryCells(Head(ids), zs[Head(ids)]) \o EntriesCells(zs, Tail(ids))

\* The orders a HashMap of ids may be iterated in.
IdOrder == <<"X", "Y">>

IdOrders(zs) ==
    { SelectSeq(IdOrder, LAMBDA i : i \in DOMAIN zs),
      SelectSeq(Reverse(IdOrder), LAMBDA i : i \in DOMAIN zs) }

\* serde_yaml::to_writer(file, &contents): ks and ids are the iteration orders
\* of the two HashMaps.
to_writer(m, frontmatter, zs, ks, ids) ==
    <<Delim, MetaCell(m)>>
    \o [i \in 1..Len(ks) |-> TemplateCell(ks[i], frontmatter[ks[i]])]
    \o (IF DOMAIN zs = {} THEN <<EmptyMapCell>> ELSE <<MapCell>> \o EntriesCells(zs, ids))

\* Writing text at the start of a file opened without truncation: what the
\* file held beyond the text's length stays.
write_over(old, text) ==
    IF old = NoFile \/ Len(old) <= Len(text) THEN text
    ELSE text \o SubSeq(old, Len(text) + 1, Len(old))

\* The entries of the "zettels" mapping, from cell i on: a key cell, then the
\* cells of its path. The id field of a loaded entry is String::default().
RECURSIVE ParseEntries(_, _, _)
ParseEntries(cells, i, acc) ==
    IF i > Len(cells) THEN [kind |-> "ok", zettels |-> acc]
    ELSE IF cells[i][1] # "entry" THEN [kind |-> "SerializationError", zettels |-> <<>>]
    ELSE LET paths == {j \in (i + 1)..Len(cells) :
                          \A k \in (i + 1)..j : cells[k][1] = "path"}
             n == Cardinality(paths)
             entry == [created |-> cells[i][3][2], modified |-> cells[i][4][2],
                       title |-> cells[i][5][2],
                       path |-> [k \in 1..n |-> cells[i + k][2]],
                       id |-> ""]
         IN  IF n = 0 THEN [kind |-> "SerializationError", zettels |-> <<>>]
             ELSE ParseEntries(cells, i + n + 1,
                               [k \in DOMAIN acc \cup {cells[i][2]} |->
                                   IF k = cells[i][2] THEN entry ELSE acc[k]])

\* serde_yaml::from_reader::<ZkContents>: the document start, the timestamps,
\* the template's keys, then the map: "{}" and the end of the text, or
\* entries up to the end of the text. Anything else is no ZkContents.
from_reader(cells) ==
    LET n == Len(cells)
        err == [kind |-> "SerializationError"]
        t == Cardinality({j \in 3..n : \A k \in 3..j : cells[k][1] = "default_frontmatter"})
        z == 3 + t
        loaded(zs) ==
            [kind |-> "ok",
             meta |-> [created |-> cells[2][2][2], modified |-> cells[2][3][2]],
             default_frontmatter |->
                 [k \in {cells[j][2] : j \in 3..(z - 1)} |->
                     cells[CHOOSE j \in 3..(z - 1) :
                               /\ cells[j][2] = k
                               /\ \A i \in 3..(z - 1) : cells[i][2] = k => i <= j][3]],
             zettels |-> zs]
    IN  IF n < 3 \/ cells[1] # Delim \/ cells[2][1] # "meta" THEN err
        ELSE IF t = 0 \/ z > n THEN err
        ELSE IF cells[z] = EmptyMapCell
        THEN IF z = n THEN loaded(<<>>) ELSE err
        ELSE IF cells[z] = MapCell /\ z < n
        THEN LET r == ParseEntries(cells, z + 1, <<>>)
             IN  IF r.kind = "ok" THEN loaded(r.zettels) ELSE err
        ELSE err

Last(seq) == seq[Len(seq)]

\* A variant of open that takes a directory without backing file for an error.
open_strict(tree, path) ==
    LET file == IF is_dir(path) THEN path \o <<"_zettel.yaml">> ELSE path
    IN  IF ~exists(tree, path) THEN [res |-> "None"]
        ELSE IF ~exists(tree, file) THEN [res |-> "IoError"]
        ELSE IF Last(split_dot(Last(file))) \in {"yaml", "yml"}
        THEN LET c == from_reader(tree[file])
             IN  IF c.kind # "ok" THEN [res |-> c.kind]
                 ELSE [res |-> "ok", contents |-> c, db_path |-> file]
        ELSE [res |-> "Other"]

\* Zettelkasten::open, with resolve_db_path: None for a path that does not
\* exist and for a directory without "_zettel.yaml"; the suffix is what
\* follows the last dot of the file name, the whole name when it has no dot.
open(tree, path) ==
    LET file == IF is_dir(path) THEN path \o <<"_zettel.yaml">> ELSE path
    IN  IF ~exists(tree, path) \/ ~exists(tree, file) THEN [res |-> "None"]
        ELSE IF Last(split_dot(Last(file))) \in {"yaml", "yml"}
        THEN LET c == from_reader(tree[file])
             IN  IF c.kind # "ok" THEN [res |-> c.kind]
                 ELSE [res |-> "ok", contents |-> c, db_path |-> file]
        ELSE [res |-> "Other"]

\* Zettelkasten::commit: the file is opened with create and write, without
\* truncate, and the text is written from its start. io names the file
\* operation that fails, if any: the open, or the first write.
commit(tree, field, text, io) ==
    LET path == DbPath(field)
    IN  IF io = "create" THEN [res |-> "IoError", tree |-> tree]
        ELSE IF io = "write"
        THEN [res |-> "SerializationError",
              tree |-> IF tree[path] = NoFile THEN [tree EXCEPT ![path] = <<>>] ELSE tree]
        ELSE [res |-> "ok", tree |-> [tree EXCEPT ![path] = write_over(tree[path], text)]]

\* The notes added to an index that is committed and reopened.
StoreZettels ==
    {z \in Zettels : <<z.meta.id, z.meta.path>> \in {<<"X", <<"b", "c.md">>>>, <<"Y", <<"a.md">>>>}}

\* A built index on a root whose sub-directories exist, before any commit.
StoreInit ==
    /\ zettels = <<>>
    /\ default_frontmatter = DefaultFrontmatter
    /\ fs = [p \in FilePaths \cup {BackingFile} |-> NoFile]
    /\ dirOrder = NameOrder
    /\ pc = "run"
    /\ envOps = 0
    /\ last = Done("build", <<>>, "ok", <<>>)
    /\ zk_meta = [created |-> Now, modified |-> Now]
    /\ db_path = <<"_zettel.yaml">>
    /\ call = NoCall

\* ZettelkastenBuilder::build in a later run, on the root as it is by then.
Build ==
    /\ pc = "run"
    /\ zettels' = <<>>
    /\ default_frontmatter' = DefaultFrontmatter
    /\ zk_meta' = [created |-> Now, modified |-> Now]
    /\ db_path' = <<"_zettel.yaml">>
    /\ last' = Done("build", <<>>, "ok", <<>>)
    /\ UNCHANGED <<fs, dirOrder, pc, envOps, call>>

\* Zettelkasten::commit
Commit(io, ks, ids) ==
    /\ pc = "run"
    /\ LET r == commit(fs, db_path, to_writer(zk_meta, default_frontmatter, zettels, ks, ids), io)
       IN  /\ fs' = r.tree
           /\ last' = Done("commit", DbPath(db_path), r.res, <<>>)
    /\ UNCHANGED <<zettels, default_frontmatter, dirOrder, pc, envOps, zk_meta, db_path, call>>

\* Zettelkasten::open: the index it returns takes the place of the one in
\* memory; on None and on an error there is no new index.
Open(path) ==
    /\ pc = "run"
    /\ LET r == open(fs, path)
       IN  /\ last' = Done("open", path, r.res, <<>>)
           /\ IF r.res = "ok"
              THEN /\ zettels' = r.contents.zettels
                   /\ default_frontmatter' = r.contents.default_frontmatter
                   /\ zk_meta' = r.contents.meta
                   /\ db_path' = r.db_path
              ELSE UNCHANGED <<zettels, default_frontmatter, zk_meta, db_path>>
    /\ UNCHANGED <<fs, dirOrder, pc, envOps, call>>

StoreAddStep ==
    \E zettel \in StoreZettels :
        Add(zettel, "none", CHOOSE ks \in KeyOrders(default_frontmatter) : TRUE)

\* The template's keys are written in one order here; the entries in both.
CommitStep ==
    \E io \in IoOutcomes, ids \in IdOrders(zettels) :
        Commit(io, CHOOSE ks \in KeyOrders(default_frontmatter) : TRUE, ids)

OpenStep == \E path \in {RootPath, BackingFile} : Open(path)

StoreNext ==
    \/ StoreAddStep
    \/ Sync
    \/ CommitStep
    \/ OpenStep
    \/ Build
    \/ EnvMoveStep

StoreSpec == StoreInit /\ [][StoreNext]_vars

\* ---------------------------------------------------------------- opening

\* What a candidate backing file can hold: nothing (no such file), the text
\* of a committed index with one entry, text that is not a yaml document of
\* the index's shape, and a committed text cut short.
SavedIndex ==
    to_writer([created |-> Now, modified |-> Now], DefaultFrontmatter,
              [id \in {"Y"} |-> [id |-> "Y", path |-> <<"a.md">>, title |-> "T1",
                                 created |-> Now, modified |-> Now]],
              CHOOSE ks \in KeyOrders(DefaultFrontmatter) : TRUE, <<"Y">>)

DbContents ==
    {NoFile, SavedIndex, <<Text("hello")>>, SubSeq(SavedIndex, 1, Len(SavedIndex) - 1)}

\* The paths open is called with: the root, a sub-directory, each candidate
\* file, and a path that does not exist.
OpenPaths ==
    {RootPath, abs_path(<<"b">>), abs_path(<<"gone.yaml">>)} \cup DbFiles

\* A root in which each candidate backing file is absent or holds one of the
\* contents above; no index is in memory but the one just built.
OpenInit ==
    /\ zettels = <<>>
    /\ default_frontmatter = DefaultFrontmatter
    /\ fs \in {t \in [FilePaths \cup DbFiles -> DbContents] :
                   \A q \in FilePaths : t[q] = NoFile}
    /\ dirOrder = NameOrder
    /\ pc = "run"
    /\ envOps = 0
    /\ last = Done("build", <<>>, "ok", <<>>)
    /\ zk_meta = [created |-> Now, modified |-> Now]
    /\ db_path = <<"_zettel.yaml">>
    /\ call = NoCall

OpenNext == \E path \in OpenPaths : Open(path)

OpenSpec == OpenInit /\ [][OpenNext]_vars

\* -------------------------------------------------------------- rendering

\* How often one note is rendered.
MaxRenders == 2

\* Note bodies, as the lines of content + "\n": the empty body (as
\* Database::new_zettel makes it), the single line break (ZettelBuilder's
\* default), and text without and with a leading line break.
Bodies == {<<"">>, <<"", "">>, <<"A post.">>, <<"", "A post.">>}

RenderZettels == {[meta |-> z.meta, content |-> b] : z \in Zettels, b \in Bodies}

\* Templates with the three references, one of them with a literal value
\* too, and templates with a reference as_string does not know, under a key
\* that comes late or early in the map's iteration.
RenderTemplates ==
    { DefaultFrontmatter,
      [title |-> Ref("title"), id |-> Ref("id"), date |-> Ref("created"),
       kind |-> Lit("note")],
      [id |-> Ref("id"), tag |-> Ref("foo")],
      [date |-> Ref("bar"), kind |-> Lit("note"), title |-> Ref("title")] }

\* A note and a template, not rendered yet.
RenderInit ==
    /\ zettels = <<>>
    /\ default_frontmatter = DefaultFrontmatter
    /\ fs = [p \in FilePaths |-> NoFile]
    /\ dirOrder = NameOrder
    /\ pc = "run"
    /\ envOps = 0
    /\ last = Done("build", <<>>, "ok", <<>>)
    /\ zk_meta = [created |-> Now, modified |-> Now]
    /\ db_path = <<"_zettel.yaml">>
    /\ call \in {[zettel |-> z, frontmatter |-> fm, out |-> <<>>] :
                    z \in RenderZettels, fm \in RenderTemplates}

\* Zettel::as_string called once more with the same arguments; the map it
\* builds is a new HashMap, iterated in the order ks.
Render(ks) ==
    /\ Len(call.out) < MaxRenders
    /\ call' = [call EXCEPT !.out = Append(@, as_string(call.zettel, call.frontmatter, ks))]
    /\ UNCHANGED <<zettels, default_frontmatter, fs, dirOrder, pc, envOps, last,
                   zk_meta, db_path>>

RenderNext == \E ks \in KeyOrders(call.frontmatter) : Render(ks)

RenderSpec == RenderInit /\ [][RenderNext]_vars

\* ----------------------------------------------------- the new-note command

\* The title a note is made with, and str::replace(" ", "-") of it.
NewTitles == {"my note"}

replace_spaces(title) ==
    CASE title = "my note" -> "my-note"

\* The clock ticks a command runs at: one on each of two days.
NewTimes == {1, 2}

\* Database::make_filename: the date in the name is that of
\* chrono::Local::now(), read when the name is made; the path begins with the
\* database's root directory.
db_make_filename(title, now) ==
    RootPath \o <<format_date(now) \o "-" \o replace_spaces(title) \o ".md">>

\* Database::new_zettel
db_new_zettel(title, id, date, now) ==
    [meta |-> [created |-> date, modified |-> date, id |-> id, title |-> title,
               path |-> db_make_filename(title, now)],
     content |-> <<"">>]

\* The files the command can make.
NewPaths == {db_make_filename(title, now) : title \in NewTitles, now \in NewTimes}

\* Database::get_zk: the index the backing file holds, or a new one with the
\* default template when there is no backing file.
db_get_zk(tree, now) ==
    IF is_file(tree, BackingFile) THEN from_reader(tree[BackingFile])
    ELSE [kind |-> "ok", meta |-> [created |-> now, modified |-> now],
          default_frontmatter |-> DefaultFrontmatter, zettels |-> <<>>]

\* Database::commit: File::create truncates the backing file, then the text
\* is written. io names the file operation that fails, if any.
db_commit(tree, text, io) ==
    IF io = "create" THEN [res |-> "IoError", tree |-> tree]
    ELSE IF io = "write"
    THEN [res |-> "SerializationError", tree |-> [tree EXCEPT ![BackingFile] = <<>>]]
    ELSE [res |-> "ok", tree |-> [tree EXCEPT ![BackingFile] = text]]

\* The file operations of one command that fail: in add, in commit, and
\* std::fs::remove_file.
NewFaults == [add : IoOutcomes, commit : IoOutcomes, remove : {"none", "remove"}]

\* A variant of new that returns commit's error without a cleanup.
new_no_cleanup(tree, title, date, now, id, io, ks, ids) ==
    LET zk == db_get_zk(tree, now)
        zettel == db_new_zettel(title, id, date, now)
        a == AddOutcome(zk.zettels, tree, zk.default_frontmatter, zettel, io.add, ks)
        c == db_commit(a.tree,
                       to_writer(zk.meta, zk.default_frontmatter, a.zettels, ks,
                                 SelectSeq(ids, LAMBDA i : i \in DOMAIN a.zettels)),
                       io.commit)
    IN  IF zk.kind # "ok"
        THEN [res |-> "YamlDatabaseError", tree |-> tree, path |-> zettel.meta.path,
              log |-> <<<<"get_zk", zk.kind>>>>]
        ELSE IF a.res # "ok"
        THEN [res |-> "ZettelkastenError", tree |-> a.tree, path |-> zettel.meta.path,
              log |-> <<<<"get_zk", "ok">>, <<"add", a.res>>>>]
        ELSE IF c.res = "ok"
        THEN [res |-> "ok", tree |-> c.tree, path |-> zettel.meta.path,
              log |-> <<<<"get_zk", "ok">>, <<"add", "ok">>, <<"commit", "ok">>>>]
        ELSE [res |-> "YamlDatabaseError", tree |-> c.tree, path |-> zettel.meta.path,
              log |-> <<<<"get_zk", "ok">>, <<"add", "ok">>, <<"commit", c.res>>>>]

\* main.rs new: load the index, make the note, add it, commit; when commit
\* fails, or_else prints the error and removes the note's file, and the
\* result of remove_file is the result of the step. ids is the order the
\* map that is written is iterated in.
new(tree, title, date, now, id, io, ks, ids) ==
    LET zk == db_get_zk(tree, now)
        zettel == db_new_zettel(title, id, date, now)
        a == AddOutcome(zk.zettels, tree, zk.default_frontmatter, zettel, io.add, ks)
        c == db_commit(a.tree,
                       to_writer(zk.meta, zk.default_frontmatter, a.zettels, ks,
                                 SelectSeq(ids, LAMBDA i : i \in DOMAIN a.zettels)),
                       io.commit)
    IN  IF zk.kind # "ok"
        THEN [res |-> "YamlDatabaseError", tree |-> tree, path |-> zettel.meta.path,
              log |-> <<<<"get_zk", zk.kind>>>>]
        ELSE IF a.res # "ok"
        THEN [res |-> "ZettelkastenError", tree |-> a.tree, path |-> zettel.meta.path,
              log |-> <<<<"get_zk", "ok">>, <<"add", a.res>>>>]
        ELSE IF c.res = "ok"
        THEN [res |-> "ok", tree |-> c.tree, path |-> zettel.meta.path,
              log |-> <<<<"get_zk", "ok">>, <<"add", "ok">>, <<"commit", "ok">>>>]
        ELSE IF io.remove = "none"
        THEN [res |-> "ok", tree |-> [c.tree EXCEPT ![zettel.meta.path] = NoFile],
              path |-> zettel.meta.path,
              log |-> <<<<"get_zk", "ok">>, <<"add", "ok">>, <<"commit", c.res>>,
                        <<"remove_file", "ok">>>>]
        ELSE [res |-> "IoError", tree |-> c.tree, path |-> zettel.meta.path,
              log |-> <<<<"get_zk", "ok">>, <<"add", "ok">>, <<"commit", c.res>>,
                        <<"remove_file", "IoError">>>>]

\* A root with its sub-directories and no file: no index yet.
NewInit ==
    /\ zettels = <<>>
    /\ default_frontmatter = DefaultFrontmatter
    /\ fs = [p \in FilePaths \cup {BackingFile} \cup NewPaths |-> NoFile]
    /\ dirOrder = NameOrder
    /\ pc = "run"
    /\ envOps = 0
    /\ last = Done("build", <<>>, "ok", <<>>)
    /\ zk_meta = [created |-> Now, modified |-> Now]
    /\ db_path = <<"_zettel.yaml">>
    /\ call = NoCall

\* The command `new`: a process that loads the index, runs new and ends; the
\* index it held is gone with it.
New(title, date, now, id, io, ks, ids) ==
    /\ LET r == new(fs, title, date, now, id, io, ks, ids)
       IN  /\ fs' = r.tree
           /\ last' = Done("new", r.path, r.res, r.log)
    /\ call' = [title |-> title, date |-> date, now |-> now, id |-> id]
    /\ UNCHANGED <<zettels, default_frontmatter, dirOrder, pc, envOps, zk_meta, db_path>>

\* The command `init`: commit a new index.
InitCmd(now, io, ks) ==
    /\ LET c == db_commit(fs, to_writer([created |-> now, modified |-> now],
                                        DefaultFrontmatter, <<>>, ks, <<>>), io)
       IN  /\ fs' = c.tree
           /\ last' = Done("init", BackingFile, IF c.res = "ok" THEN "ok" ELSE "YamlDatabaseError",
                           <<<<"commit", c.res>>>>)
    /\ call' = [now |-> now]
    /\ UNCHANGED <<zettels, default_frontmatter, dirOrder, pc, envOps, zk_meta, db_path>>

\* The date is the clock's when the command starts (main) and the file name
\* is made later; the maps are written in one order here.
NewStep ==
    \E title \in NewTitles, date \in NewTimes, id \in Ids, io \in NewFaults :
        \E now \in {t \in NewTimes : t >= date} :
            New(title, date, now, id, io,
                CHOOSE ks \in KeyOrders(DefaultFrontmatter) : TRUE,
                IdOrder)

InitStep ==
    \E io \in IoOutcomes :
        InitCmd(Now, io, CHOOSE ks \in KeyOrders(DefaultFrontmatter) : TRUE)

NewNext ==
    \/ NewStep
    \/ InitStep

NewSpec == NewInit /\ [][NewNext]_vars

\* ------------------------------------------------------------------ lookup

\* Zettelkasten::get on the index in memory; its result is what the caller
\* sees of the call.
Get(id) ==
    /\ pc = "run"
    /\ LET r == get(zettels, id)
       IN  /\ last' = Done("get", <<id>>, r.kind, <<>>)
           /\ call' = [id |-> id, out |-> r]
    /\ UNCHANGED <<zettels, default_frontmatter, fs, dirOrder, pc, envOps, zk_meta, db_path>>

GetStep == \E id \in Ids : Get(id)

\* An index that notes are added to, synchronised and looked up in, while
\* files are moved.
GetNext ==
    \/ StoreAddStep
    \/ Sync
    \/ EnvMoveStep
    \/ GetStep

GetSpec == StoreInit /\ [][GetNext]_vars

\* ---------------------------------------------------------------- parsing

\* The longest text that is parsed, in lines.
MaxLines == 3

\* The lines of a text: the delimiter, a line that starts with it, a
\* "key: value" line, a line of prose and the empty line.
ParseLines == {Delim, DelimPlus("x"), KV("id", Str("X")), Text("hello"), Blank}

ParseInputs == UNION {[1..n -> ParseLines] : n \in 0..MaxLines}

\* A text, not parsed yet.
ParseInit ==
    /\ zettels = <<>>
    /\ default_frontmatter = DefaultFrontmatter
    /\ fs = [p \in FilePaths |-> NoFile]
    /\ dirOrder = NameOrder
    /\ pc = "run"
    /\ envOps = 0
    /\ last = Done("build", <<>>, "ok", <<>>)
    /\ zk_meta = [created |-> Now, modified |-> Now]
    /\ db_path = <<"_zettel.yaml">>
    /\ call \in {[text |-> t, out |-> <<>>] : t \in ParseInputs}

\* frontmatter::parse_yaml on a reader of the text.
Parse ==
    /\ call.out = <<>>
    /\ call' = [call EXCEPT !.out = <<parse_yaml(call.text)>>]
    /\ UNCHANGED <<zettels, default_frontmatter, fs, dirOrder, pc, envOps, last,
                   zk_meta, db_path>>

ParseNext == Parse

ParseSpec == ParseInit /\ [][ParseNext]_vars

\* ------------------------------------------------- what the claims speak of

Range(s) == {s[i] : i \in DOMAIN s}

\* Position c holds the first delimiter line after the opening one.
Closes(lines, c) ==
    /\ c \in 2..Len(lines)
    /\ lines[c] = Delim
    /\ \A j \in 2..(c - 1) : lines[j] # Delim

\* The lines between the delimiters of a file that has both.
HeaderLines(lines) ==
    {lines[j] : j \in {j \in 2..Len(lines) : \E c \in 2..Len(lines) : Closes(lines, c) /\ j < c}}

\* A well-formed header: opening delimiter, closing delimiter, and between
\* them a mapping of at least one key.
WellFormed(lines) ==
    /\ Len(lines) >= 1
    /\ lines[1] = Delim
    /\ \E c \in 2..Len(lines) : Closes(lines, c)
    /\ \A l \in HeaderLines(lines) : IsKV(l) \/ l = Blank
    /\ \E l \in HeaderLines(lines) : IsKV(l)

\* The file has a well-formed header with "id: <id>", a string.
HasId(lines, id) == WellFormed(lines) /\ KV("id", Str(id)) \in HeaderLines(lines)

HasTitle(lines, title) ==
    WellFormed(lines) /\ KV("title", Str(title)) \in HeaderLines(lines)

\* The file has a well-formed header with no id, or one that is no string.
IdLess(lines) ==
    /\ WellFormed(lines)
    /\ \A l \in HeaderLines(lines) : IsKV(l) /\ l[2] = "id" => ~IsStr(l[3])

\* The file has no opening delimiter: no first line, or another first line.
MissingOpen(lines) == Len(lines) = 0 \/ lines[1] # Delim

\* No component of the path begins like the backing file's name.
InWalk(path) ==
    \A i \in 1..Len(strip_prefix(path)) : strip_prefix(path)[i] \notin ZettelPrefixed

Files == {p \in FilePaths : is_file(fs, p)}

\* The only file under the root that carries id.
OnlyFileOf(p, id) ==
    /\ p \in Files
    /\ HasId(fs[p], id)
    /\ \A q \in Files \ {p} : ~HasId(fs[q], id)

\* What the template makes of a note's metadata under key k.
Rendered(frontmatter, meta, k) ==
    IF frontmatter[k] = Ref("title") THEN meta.title
    ELSE IF frontmatter[k] = Ref("id") THEN meta.id
    ELSE IF frontmatter[k] = Ref("created") THEN DateNames[(meta.created \div 2) + 1]
    ELSE frontmatter[k][2]

\* ------------------------------------------------------------------ claims

\* C1: uniqueness enforcement. An add that succeeds leaves a file at the
\* note's path; an add whose target path holds a file fails with "already
\* exists" and leaves the map and every file as they were; so the second of
\* two adds on one path fails and changes nothing.
C1_Uniqueness ==
    [][last'.op = "add" =>
          /\ last'.res = "ok" => is_file(fs', abs_path(last'.target))
          /\ is_file(fs, abs_path(last'.target)) =>
                 /\ last'.res = "AlreadyExists"
                 /\ zettels' = zettels
                 /\ fs' = fs
          /\ (last.op = "add" /\ last.res = "ok" /\ last.target = last'.target) =>
                 /\ last'.res = "AlreadyExists"
                 /\ zettels' = zettels
                 /\ fs' = fs]_vars

\* An add has failed on a path where an earlier add put the file of an entry.
C1_Witness ==
    /\ last.op = "add"
    /\ last.res = "AlreadyExists"
    /\ \E id \in DOMAIN zettels :
          /\ zettels[id].path = last.target
          /\ HasId(fs[abs_path(last.target)], id)

\* C2: add is all-or-nothing. Whenever add returns an error, no file has been
\* created or written and no entry has been inserted.
C2_AllOrNothing ==
    [][(last'.op = "add" /\ last'.res # "ok") =>
          (fs' = fs /\ zettels' = zettels)]_vars

\* C3: a successful add. The target path was free; afterwards the file there
\* holds the opening delimiter, one line per template key with the value the
\* template makes of the note, and after them the closing delimiter and the
\* body; the map's entry under the note's id is the note's metadata and get
\* returns it. The map changes in no add that does not also write the file.
C3_AddSucceeds ==
    [][last'.op = "add" =>
          LET path == abs_path(last'.target)
              n == Cardinality(DOMAIN default_frontmatter)
              lines == fs'[path]
          IN  /\ last'.res = "ok" =>
                     \A zettel \in Zettels, io \in IoOutcomes,
                        ks \in KeyOrders(default_frontmatter) :
                         Add(zettel, io, ks) =>
                             /\ ~exists(fs, path)
                             /\ is_file(fs', path)
                             /\ lines[1] = Delim
                             /\ {lines[j] : j \in 2..(n + 1)} =
                                    {KV(k, Str(Rendered(default_frontmatter, zettel.meta, k))) :
                                        k \in DOMAIN default_frontmatter}
                             /\ \A j \in (n + 2)..Len(lines) : ~IsKV(lines[j])
                             /\ SubSeq(lines, Len(lines) - Len(zettel.content) + 1, Len(lines))
                                    = BodyLines(zettel.content)
                             /\ \A q \in FilePaths \ {path} : fs'[q] = fs[q]
                             /\ get(zettels', zettel.meta.id) =
                                    [kind |-> "ok", meta |-> zettel.meta]
              /\ zettels' # zettels =>
                     /\ last'.res = "ok"
                     /\ fs'[path] # fs[path]]_vars

\* An add has succeeded: its file is there and get finds its entry.
C3_Witness ==
    /\ last.op = "add"
    /\ last.res = "ok"
    /\ is_file(fs, abs_path(last.target))
    /\ \E id \in DOMAIN zettels :
          zettels[id].path = last.target /\ get(zettels, id).kind = "ok"

\* C4: identity-based relocation. After sync, an entry whose id is carried by
\* the well-formed header of exactly one file under the root, at any depth,
\* has that file's root-relative path, whatever its path was before.
C4_Relocation ==
    last.op = "sync" =>
        \A id \in DOMAIN zettels, p \in FilePaths :
            OnlyFileOf(p, id) => zettels[id].path = strip_prefix(p)

\* C5: sync leaves created, modified and id of every entry as they were.
C5_SyncFrame ==
    [][last'.op = "sync" =>
          \A id \in DOMAIN zettels :
              /\ id \in DOMAIN zettels'
              /\ zettels'[id].created = zettels[id].created
              /\ zettels'[id].modified = zettels[id].modified
              /\ zettels'[id].id = zettels[id].id]_vars

\* A sync has given an entry the title of a file's header.
C5_Witness ==
    /\ last.op = "sync"
    /\ \E id \in DOMAIN zettels, p \in Files :
          /\ HasId(fs[p], id)
          /\ HasTitle(fs[p], "T2")
          /\ zettels[id].title = "T2"
          /\ zettels[id].path = strip_prefix(p)

\* C6: sync registers nothing and removes nothing. The keys of the map are
\* the same after sync; an entry whose id no file carries is unchanged; a
\* file the walk reads whose id is no key is reported and skipped.
C6_NoRegistration ==
    [][last'.op = "sync" =>
          /\ DOMAIN zettels' = DOMAIN zettels
          /\ \A id \in DOMAIN zettels :
                (\A p \in Files : ~HasId(fs[p], id)) => zettels'[id] = zettels[id]
          /\ last'.res = "ok" =>
                \A p \in Files, id \in Ids \ DOMAIN zettels :
                    (InWalk(p) /\ HasId(fs[p], id)) =>
                        Diag(p, "no metadata") \in Range(last'.log)]_vars

\* A sync has skipped a file with an unregistered id and kept an entry whose
\* id is in no file.
C6_Witness ==
    /\ last.op = "sync"
    /\ \E d \in Range(last.log) : d[2] = "no metadata"
    /\ \E id \in DOMAIN zettels : \A p \in Files : ~HasId(fs[p], id)

\* C7: sync never aborts because of one bad file: whatever the files hold,
\* sync returns success to its caller.
C7_NeverAborts == last.op = "sync" => last.res = "ok"

\* C8: malformed-file resilience. In a sync of a tree with a file that has no
\* opening delimiter, that file changes no entry (the map ends as it does in
\* the sync of the tree without the file), and every other file the walk
\* reads that alone carries a registered id has its entry refreshed: the
\* entry gets the file's path and, when the header has a title, that title;
\* this in whatever order the directory entries are visited.
C8_Resilience ==
    [][last'.op = "sync" =>
          \A p \in Files :
              (InWalk(p) /\ MissingOpen(fs[p])) =>
                  /\ zettels' = sync(zettels, [fs EXCEPT ![p] = NoFile], dirOrder).zettels
                  /\ \A q \in Files \ {p}, id \in DOMAIN zettels :
                        (InWalk(q) /\ OnlyFileOf(q, id)) =>
                            /\ zettels'[id].path = strip_prefix(q)
                            /\ \A t \in {"T1", "T2"} :
                                  HasTitle(fs[q], t) => zettels'[id].title = t]_vars

\* C9: missing-id skip. A file with a well-formed header that has no id, or
\* an id that is no string, is skipped: sync_file on it returns, with the map
\* as it was, and the sync of the tree ends as the sync of the tree without
\* that file does, with the same map.
C9_MissingIdSkip ==
    [][last'.op = "sync" =>
          \A p \in Files :
              (InWalk(p) /\ IdLess(fs[p])) =>
                  /\ sync_file(zettels, fs, p).res = "ok"
                  /\ sync_file(zettels, fs, p).zettels = zettels
                  /\ LET without == sync(zettels, [fs EXCEPT ![p] = NoFile], dirOrder)
                     IN  /\ zettels' = without.zettels
                         /\ last'.res = without.res]_vars

\* A sync has returned after skipping a file whose id is no string, with
\* entries in the map.
C9_Witness ==
    /\ last.op = "sync"
    /\ last.res = "ok"
    /\ DOMAIN zettels # {}
    /\ \E d \in Range(last.log) : d[2] = "id not a string" /\ IdLess(fs[d[1]])

\* C10: idempotent sync. After a sync that returned, a second sync of the
\* unchanged tree returns too and leaves the same map, with the same
\* diagnostics.
C10_Idempotent ==
    (last.op = "sync" /\ last.res = "ok") =>
        LET again == sync(zettels, fs, dirOrder)
        IN  /\ again.res = "ok"
            /\ again.zettels = zettels
            /\ again.log = last.log

\* A sync has returned on a tree where two files carry one registered id.
C10_Witness ==
    /\ last.op = "sync"
    /\ last.res = "ok"
    /\ \E id \in DOMAIN zettels, p \in Files, q \in Files :
          /\ p # q
          /\ InWalk(p) /\ InWalk(q)
          /\ HasId(fs[p], id) /\ HasId(fs[q], id)

\* C11: persistence happens only on commit. An add and a sync leave the
\* backing file as it was (absent, or with the text it had); a sync changes no
\* file at all; and whenever the backing file changes in a step of the index,
\* that step is a commit.
C11_PersistOnlyOnCommit ==
    [][/\ last'.op \in {"add", "sync"} => fs'[BackingFile] = fs[BackingFile]
       /\ last'.op = "sync" => fs' = fs
       /\ fs'[BackingFile] # fs[BackingFile] => last'.op = "commit"]_vars

\* After a commit, a sync has changed an entry in memory and the backing file
\* still holds the entry as committed.
C11_Witness ==
    /\ last.op = "sync"
    /\ is_file(fs, BackingFile)
    /\ LET c == from_reader(fs[BackingFile])
       IN  /\ c.kind = "ok"
           /\ \E id \in DOMAIN zettels \cap DOMAIN c.zettels :
                 c.zettels[id].path # zettels[id].path

\* C12: commit/open round trip. An open that follows a successful commit
\* returns an index with the committed one's timestamps, template and keys,
\* and get on it returns, for every id, the committed path, title, created
\* and modified.
C12_RoundTrip ==
    [][(last.op = "commit" /\ last.res = "ok" /\ last'.op = "open") =>
          /\ last'.res = "ok"
          /\ zk_meta' = zk_meta
          /\ default_frontmatter' = default_frontmatter
          /\ DOMAIN zettels' = DOMAIN zettels
          /\ \A id \in DOMAIN zettels :
                /\ get(zettels', id).kind = "ok"
                /\ get(zettels', id).meta.path = zettels[id].path
                /\ get(zettels', id).meta.title = zettels[id].title
                /\ get(zettels', id).meta.created = zettels[id].created
                /\ get(zettels', id).meta.modified = zettels[id].modified]_vars

\* C13: commit overwrites the backing file. After a successful commit the
\* backing file holds exactly a serialization of the index in memory (in one
\* of the orders its maps can be written in), whatever it held before.
C13_CommitOverwrites ==
    [][(last'.op = "commit" /\ last'.res = "ok") =>
          \E ks \in KeyOrders(default_frontmatter), ids \in IdOrders(zettels) :
              fs'[DbPath(db_path)] =
                  to_writer(zk_meta, default_frontmatter, zettels, ks, ids)]_vars

\* The file open resolves a directory to.
C14_File(path) == path \o <<"_zettel.yaml">>

\* C14: open on a directory without the conventional backing file returns
\* None, not an error, gives no index and changes nothing on disk; open on a
\* directory that contains it loads that file: the index is the one the file
\* holds, or the error is the one reading it gives.
C14_OpenDirectory ==
    [][(last'.op = "open" /\ is_dir(last'.target)) =>
          /\ fs' = fs
          /\ IF ~is_file(fs, C14_File(last'.target))
             THEN /\ last'.res = "None"
                  /\ UNCHANGED <<zettels, default_frontmatter, zk_meta, db_path>>
             ELSE LET c == from_reader(fs[C14_File(last'.target)])
                  IN  /\ last'.res = c.kind
                      /\ c.kind = "ok" =>
                            /\ zettels' = c.zettels
                            /\ default_frontmatter' = c.default_frontmatter
                            /\ zk_meta' = c.meta
                            /\ db_path' = C14_File(last'.target)]_vars

C14_Witness ==
    /\ last.op = "open" /\ last.target = RootPath /\ last.res = "None"
    /\ ~is_file(fs, BackingFile)
    /\ \E f \in DbFiles : is_file(fs, f)

\* A file name's suffix: what follows its last dot, when it has a dot.
C15_Suffix(path) ==
    LET parts == split_dot(Last(path))
    IN  IF Len(parts) >= 2 THEN Last(parts) ELSE "none"

\* C15: open on an existing file loads that file; a name whose suffix is
\* neither yaml nor yml, or that has no suffix, gives the unsupported-format
\* error; a file that is not a yaml document of the index gives the parse
\* error; in both cases no index is returned.
C15_OpenFile ==
    [][(last'.op = "open" /\ is_file(fs, last'.target)) =>
          LET c == from_reader(fs[last'.target])
          IN  IF C15_Suffix(last'.target) \notin {"yaml", "yml"}
              THEN /\ last'.res = "Other"
                   /\ UNCHANGED <<zettels, default_frontmatter, zk_meta, db_path>>
              ELSE IF c.kind # "ok"
              THEN /\ last'.res = "SerializationError"
                   /\ UNCHANGED <<zettels, default_frontmatter, zk_meta, db_path>>
              ELSE /\ last'.res = "ok"
                   /\ zettels' = c.zettels
                   /\ default_frontmatter' = c.default_frontmatter
                   /\ zk_meta' = c.meta
                   /\ db_path' = last'.target]_vars

\* The template has the three reference tokens under title, id and date.
C16_HasTokens(fm) ==
    /\ {"title", "id", "date"} \subseteq DOMAIN fm
    /\ fm["title"] = Ref("title") /\ fm["id"] = Ref("id") /\ fm["date"] = Ref("created")

\* C16: header round trip. For every note, every template with the three
\* reference tokens and every body (one that begins without a line break and
\* the empty one included), rendering succeeds and parsing the header of the
\* rendered text gives a mapping whose title, id and date are the note's
\* title, id and created date as YYYY-MM-DD.
C16_HeaderRoundTrip ==
    \A i \in 1..Len(call.out) :
        C16_HasTokens(call.frontmatter) =>
            /\ call.out[i].kind = "ok"
            /\ LET p == parse_yaml(call.out[i].lines)
               IN  /\ p.kind = "ok"
                   /\ p.map["title"] = Str(call.zettel.meta.title)
                   /\ p.map["id"] = Str(call.zettel.meta.id)
                   /\ p.map["date"] = Str(format_date(call.zettel.meta.created))

\* C17: rendering is deterministic. Two calls with the same template, the
\* same note and the same body give the same text.
C17_Deterministic ==
    \A i, j \in 1..Len(call.out) : call.out[i] = call.out[j]

\* A step of the command failed.
C18_Failed(log, step) == \E e \in Range(log) : e[1] = step /\ e[2] # "ok"

\* The backing file holds an entry for id at path.
C18_Persisted(tree, id, path) ==
    /\ is_file(tree, BackingFile)
    /\ LET c == from_reader(tree[BackingFile])
       IN  c.kind = "ok" /\ id \in DOMAIN c.zettels /\ c.zettels[id].path = path

\* C18: compensation after a failed commit. In the new-note command, when add
\* has written the note's file and the commit that follows fails, the command
\* removes that file: remove_file is called on it, and unless the file system
\* refuses the removal the file is gone. So when the command ends after a
\* successful add, the file it made exists only with a persisted index entry.
C18_Compensation ==
    [][(last'.op = "new" /\ <<"add", "ok">> \in Range(last'.log)) =>
          /\ C18_Failed(last'.log, "commit") =>
                /\ \E e \in Range(last'.log) : e[1] = "remove_file"
                /\ <<"remove_file", "ok">> \in Range(last'.log) =>
                      ~is_file(fs', last'.target)
          /\ ~C18_Failed(last'.log, "remove_file") =>
                (is_file(fs', last'.target) =>
                    C18_Persisted(fs', call'.id, last'.target))]_vars

C18_Witness ==
    /\ last.op = "new"
    /\ <<"add", "ok">> \in Range(last.log)
    /\ C18_Failed(last.log, "commit")
    /\ <<"remove_file", "ok">> \in Range(last.log)
    /\ ~is_file(fs, last.target)
    /\ is_file(fs, BackingFile)

\* C19: fatal errors propagate. When a step of a command (loading the index,
\* add with its rendering, commit) fails, the command returns an error and
\* never success; a failed commit in new is not made a success by the
\* cleanup.
C19_ErrorsPropagate ==
    [][(last'.op \in {"new", "init"} /\ \E e \in Range(last'.log) : e[1] # "remove_file" /\ e[2] # "ok")
          => last'.res # "ok"]_vars

\* The root holds a freshly initialised index: no entry, the default template.
C20_Fresh(tree) ==
    /\ is_file(tree, BackingFile)
    /\ LET c == from_reader(tree[BackingFile])
       IN  /\ c.kind = "ok"
           /\ c.zettels = <<>>
           /\ c.default_frontmatter = DefaultFrontmatter

\* "<date of T>-<title with '-' for each space>.md"
C20_Filename(title, date) ==
    format_date(date) \o "-" \o (IF title = "my note" THEN "my-note" ELSE title) \o ".md"

\* C20: the new-note scenario. On a root with a freshly initialised index,
\* new(title, T) that succeeds makes the file "<date of T>-<title>.md" under
\* the root, its header carries the date of T, the id and the title, and the
\* index has the id with that file name, relative to the root, as its path.
C20_NewNote ==
    [][(/\ last'.op = "new" /\ last'.res = "ok"
        /\ <<"commit", "ok">> \in Range(last'.log)
        /\ C20_Fresh(fs)) =>
          LET name == C20_Filename(call'.title, call'.date)
              file == RootPath \o <<name>>
          IN  /\ is_file(fs', file)
              /\ HasId(fs'[file], call'.id)
              /\ HasTitle(fs'[file], call'.title)
              /\ KV("date", Str(format_date(call'.date))) \in HeaderLines(fs'[file])
              /\ C18_Persisted(fs', call'.id, <<name>>)]_vars

\* C21: get(id) returns the stored entry exactly when id is a key of the map
\* and fails with the not-found error otherwise; it changes neither the index
\* nor the file tree.
C21_Get ==
    [][last'.op = "get" =>
          /\ UNCHANGED <<zettels, default_frontmatter, zk_meta, db_path, fs>>
          /\ IF call'.id \in DOMAIN zettels
             THEN call'.out = [kind |-> "ok", meta |-> zettels[call'.id]]
             ELSE call'.out = [kind |-> "Other"]]_vars

C21_Witness ==
    /\ last.op = "get" /\ last.res = "Other"
    /\ call.id \notin DOMAIN zettels
    /\ DOMAIN zettels # {}

\* The walk of a sync that returned has read the file at p: it printed a
\* diagnostic for it, or the file carries a registered id and, when it is the
\* only file that does, the entry has its path.
C22_Visited(p) ==
    \/ \E d \in Range(last'.log) : d[1] = p
    \/ \E id \in DOMAIN zettels :
          /\ HasId(fs[p], id)
          /\ OnlyFileOf(p, id) => zettels'[id].path = strip_prefix(p)

\* C22: sync visits every regular file under the root, at every depth, but
\* the backing file: no file is left out of the walk for its name or the
\* name of a directory above it.
C22_WalkComplete ==
    [][(last'.op = "sync" /\ last'.res = "ok") =>
          \A p \in Files \ {BackingFile} : C22_Visited(p)]_vars

\* The string titles of a file's header.
C23_Titles(lines) ==
    {l[3][2] : l \in {h \in HeaderLines(lines) : IsKV(h) /\ h[2] = "title" /\ IsStr(h[3])}}

\* C23: title refresh. When sync reads the one file whose header carries a
\* registered id, the entry's title becomes the header's title when that is a
\* string and stays as it was when the header has no title or one that is no
\* string; the entry's path becomes the file's path either way.
C23_TitleRefresh ==
    [][(last'.op = "sync" /\ last'.res = "ok") =>
          \A id \in DOMAIN zettels, p \in Files :
              (InWalk(p) /\ OnlyFileOf(p, id)) =>
                  /\ zettels'[id].path = strip_prefix(p)
                  /\ \A t \in C23_Titles(fs[p]) : zettels'[id].title = t
                  /\ C23_Titles(fs[p]) = {} => zettels'[id].title = zettels[id].title]_vars

\* A sync has read a registered file whose title is a number: the entry has
\* the file's path and the title it was added with.
C23_Witness ==
    /\ last.op = "sync" /\ last.res = "ok"
    /\ \E id \in DOMAIN zettels, p \in Files :
          /\ InWalk(p) /\ OnlyFileOf(p, id)
          /\ KV("title", Num("7")) \in HeaderLines(fs[p])
          /\ zettels[id].path = strip_prefix(p)
          /\ zettels[id].title = "T1"

\* The template has a reference token other than title, id and created.
C24_UnknownToken(fm) ==
    \E k \in DOMAIN fm : fm[k][1] = "@" /\ fm[k][2] \notin {"title", "id", "created"}

\* C24: render puts the note's title, id and created date (YYYY-MM-DD) for
\* the reference tokens and copies literal values as they are: the header
\* lines of the output are one "key: value" per key of the template. For a
\* template with any other reference token, under whatever key, it fails with
\* UnknownField and gives no text.
C24_Substitution ==
    \A i \in 1..Len(call.out) :
        IF C24_UnknownToken(call.frontmatter)
        THEN call.out[i] = [kind |-> "UnknownField", lines |-> <<>>]
        ELSE /\ call.out[i].kind = "ok"
             /\ {l \in Range(call.out[i].lines) : IsKV(l)} =
                    {KV(k, Str(Rendered(call.frontmatter, call.zettel.meta, k))) :
                        k \in DOMAIN call.frontmatter}

\* Both iteration orders have met the unknown reference of a template that
\* also has a known one and a literal.
C24_Witness ==
    /\ Len(call.out) = 2
    /\ call.out[1].kind = "UnknownField"
    /\ call.frontmatter["kind"] = Lit("note")
    /\ call.frontmatter["title"] = Ref("title")

\* C25: parsing a header fails with the missing-opening-delimiter error when
\* the first line is not exactly the delimiter (a text without a first line
\* has none that is), and with the
\* missing-closing-delimiter error when the first line is the delimiter and
\* no later line is exactly the delimiter (a line that starts with it does not
\* close the header); otherwise the outcome is that of the lines between the
\* two delimiters, whatever follows the closing one.
C25_Delimiters ==
    \A i \in 1..Len(call.out) :
        LET t == call.text
            r == call.out[i]
        IN  /\ MissingOpen(t) => r.kind = "MissingInitialDelimiter"
            /\ (~MissingOpen(t) /\ \A j \in 2..Len(t) : t[j] # Delim) =>
                  r.kind = "MissingFinalDelimiter"
            /\ \A c \in 2..Len(t) :
                  (~MissingOpen(t) /\ Closes(t, c)) => r = from_str(SubSeq(t, 2, c - 1))

\* C26: an entry in the map is changed only by sync, and only in its title
\* and path. An add of another note, also of one with an id the map has and
\* another path, leaves every entry that was there as it was; commit changes
\* no entry; sync keeps every entry and its created, modified and id.
C26_EntryFrame ==
    [][/\ last'.op \in {"add", "commit"} =>
             \A id \in DOMAIN zettels :
                 id \in DOMAIN zettels' /\ zettels'[id] = zettels[id]
       /\ last'.op = "sync" =>
             \A id \in DOMAIN zettels :
                 /\ id \in DOMAIN zettels'
                 /\ [zettels'[id] EXCEPT !.title = "", !.path = <<>>] =
                        [zettels[id] EXCEPT !.title = "", !.path = <<>>]]_vars

\* C27: key/id agreement. In every index reached by build, add, sync, commit
\* and open, each entry of the map has the id it is stored under, also an
\* entry that was loaded from a committed backing file.
C27_KeyIdAgreement ==
    \A id \in DOMAIN zettels : zettels[id].id = id

\* C28: order independence of sync. For the index and the file tree a sync
\* starts from, the map it ends with is the one it would end with under any
\* other order of the directory entries, also when two files carry the same
\* registered id.
C28_OrderIndependent ==
    [][last'.op = "sync" =>
          \A ord \in Orders : sync(zettels, fs, ord).zettels = zettels']_vars

====
